---- MODULE Spec2Model ----
(***************************************************************************)
(* A model of yamldb (src/yamldb.py): documents stored one YAML file per   *)
(* id under a collection directory, with a derived sqlite index table per  *)
(* collection that is maintained by save and repaired by reindex.          *)
(*                                                                         *)
(* Text is a sequence of character codes (ASCII), so that formatting and   *)
(* parsing are computed and text order is the order sqlite and Python use. *)
(* A Python value is a record [k |-> kind, v |-> payload]:                 *)
(*   none: v = <<>>            int: v = <<n>>        str: v = the text     *)
(*   dt:   v = <<year, month, day, hour, minute, second>>                  *)
(*   obj:  v = <<>>  (an object PyYAML's SafeDumper cannot represent)      *)
(* A document (ordered mapping) is a sequence of [key |-> text, val |->    *)
(* value] items.                                                           *)
(***************************************************************************)
EXTENDS Integers, Sequences, FiniteSets, TLC

\* ------------------------------------------------------------------ text

\* Python None where a text is expected, and SQL NULL in an index column:
\* no text holds a negative character code.
Null == << -1 >>

RECURSIVE TextLessFrom(_, _, _)
TextLessFrom(s, t, i) ==
    IF i > Len(t) THEN FALSE
    ELSE IF i > Len(s) THEN TRUE
    ELSE IF s[i] # t[i] THEN s[i] < t[i]
    ELSE TextLessFrom(s, t, i + 1)

\* s < t in code-point order (sqlite's BINARY collation, Python's str order)
TextLess(s, t) == TextLessFrom(s, t, 1)

IsDigit(c) == c >= 48 /\ c <= 57

RECURSIVE Digits(_)
Digits(n) == IF n < 10 THEN << 48 + n >> ELSE Digits(n \div 10) \o << 48 + (n % 10) >>

RECURSIVE Zeros(_)
Zeros(k) == IF k <= 0 THEN <<>> ELSE << 48 >> \o Zeros(k - 1)

\* Python's '%0<w>d' % n: the sign counts in the width
ZeroPad(n, w) ==
    IF n < 0
    THEN << 45 >> \o Zeros(w - 1 - Len(Digits(0 - n))) \o Digits(0 - n)
    ELSE Zeros(w - Len(Digits(n))) \o Digits(n)

RECURSIVE ParseNat(_, _, _)
ParseNat(s, i, acc) ==
    IF i > Len(s) \/ ~IsDigit(s[i]) THEN acc
    ELSE ParseNat(s, i + 1, acc * 10 + (s[i] - 48))

\* the integer a run of leading digits denotes (0 when there is none)
LeadingNat(s) == ParseNat(s, 1, 0)

AllDigits(s) == Len(s) > 0 /\ \A i \in 1..Len(s) : IsDigit(s[i])

Slice(s, from, to) == IF to < from THEN <<>> ELSE SubSeq(s, from, to)

\* ------------------------------------------------------------ stringify

PyNone == [k |-> "none", v |-> <<>>]
PyInt(n) == [k |-> "int", v |-> << n >>]
\* an int or long of more than 31 bits, kept as its decimal digits
PyLong(digits) == [k |-> "long", v |-> digits]
PyStr(t) == [k |-> "str", v |-> t]
PyDatetime(y, mo, d, h, mi, s) == [k |-> "dt", v |-> << y, mo, d, h, mi, s >>]
PyObject == [k |-> "obj", v |-> <<>>]

IndexWidth == 16

\* datetime.strftime('%Y-%m-%dT%H:%M:%SZ')
StrftimeIso(v) ==
    ZeroPad(v[1], 4) \o << 45 >> \o ZeroPad(v[2], 2) \o << 45 >> \o ZeroPad(v[3], 2)
    \o << 84 >> \o ZeroPad(v[4], 2) \o << 58 >> \o ZeroPad(v[5], 2)
    \o << 58 >> \o ZeroPad(v[6], 2) \o << 90 >>

\* unicode(value) of a value that is no int, datetime or None
Unicode(value) ==
    IF value.k = "str" THEN value.v
    ELSE << 60, 111, 98, 106, 62 >>          \* "<obj>"

\* Python 2's datetime.strftime raises ValueError for a year before 1900
stringify_raises(value) == value.k = "dt" /\ value.v[1] < 1900

\* stringify with '%d' for '%016d'
stringify_unpadded(value) ==
    IF value.k = "none" THEN Null
    ELSE IF value.k = "int" THEN Digits(value.v[1])
    ELSE IF value.k = "long" THEN value.v
    ELSE IF value.k = "dt" THEN StrftimeIso(value.v)
    ELSE Unicode(value)

stringify(value) ==
    IF value.k = "none" THEN Null
    ELSE IF value.k = "int" THEN ZeroPad(value.v[1], IndexWidth)
    ELSE IF value.k = "long" THEN Zeros(IndexWidth - Len(value.v)) \o value.v
    ELSE IF value.k = "dt" THEN StrftimeIso(value.v)
    ELSE Unicode(value)

\* ------------------------------------------------------------- documents

KeyId == << 95, 105, 100 >>                               \* "_id"
KeyPubDate == << 112, 117, 98, 95, 100, 97, 116, 101 >>   \* "pub_date"
KeyTitle == << 116, 105, 116, 108, 101 >>                 \* "title"

\* the key text of a column name
KeyText(name) ==
    IF name = "_id" THEN KeyId
    ELSE IF name = "pub_date" THEN KeyPubDate
    ELSE KeyTitle

Item(key, val) == [key |-> key, val |-> val]

HasKey(doc, key) == \E i \in 1..Len(doc) : doc[i].key = key

\* document.get(key): None when the key is absent
DocGet(doc, key) ==
    IF HasKey(doc, key)
    THEN doc[CHOOSE i \in 1..Len(doc) : doc[i].key = key].val
    ELSE PyNone

\* document[key] = val: an existing key keeps its place, a new one is appended
DocSet(doc, key, val) ==
    IF HasKey(doc, key)
    THEN [doc EXCEPT ![CHOOSE i \in 1..Len(doc) : doc[i].key = key] = Item(key, val)]
    ELSE Append(doc, Item(key, val))

RECURSIVE InsertSorted(_, _)
InsertSorted(sorted, it) ==
    IF sorted = <<>> THEN << it >>
    ELSE IF TextLess(it.key, Head(sorted).key) THEN << it >> \o sorted
    ELSE << Head(sorted) >> \o InsertSorted(Tail(sorted), it)

RECURSIVE SortItems(_)
\* OrderedDict(sorted(document.items()))
SortItems(doc) ==
    IF doc = <<>> THEN <<>>
    ELSE InsertSorted(SortItems(Tail(doc)), Head(doc))

\* ------------------------------------------------- document codec (YAML)
\* The block-style subset PyYAML writes for these documents: one
\* "key: scalar" line per item, in the order of the mapping handed over.

TextNull == << 110, 117, 108, 108 >>                      \* "null"

\* data.isoformat(' ') of a datetime
IsoFormat(v) ==
    ZeroPad(v[1], 4) \o << 45 >> \o ZeroPad(v[2], 2) \o << 45 >> \o ZeroPad(v[3], 2)
    \o << 32 >> \o ZeroPad(v[4], 2) \o << 58 >> \o ZeroPad(v[5], 2)
    \o << 58 >> \o ZeroPad(v[6], 2)

IsTimestampText(t) ==
    /\ Len(t) = 19
    /\ \A i \in {1, 2, 3, 4, 6, 7, 9, 10, 12, 13, 15, 16, 18, 19} : IsDigit(t[i])
    /\ t[5] = 45 /\ t[8] = 45 /\ t[11] = 32 /\ t[14] = 58 /\ t[17] = 58

IsIntText(t) ==
    \/ AllDigits(t)
    \/ Len(t) > 1 /\ t[1] = 45 /\ AllDigits(Tail(t))

\* the implicit tag the resolver gives a plain scalar
ResolveKind(t) ==
    IF t = TextNull \/ t = <<>> THEN "none"
    ELSE IF IsIntText(t) THEN "int"
    ELSE IF IsTimestampText(t) THEN "dt"
    ELSE "str"

IsQuoted(t) == Len(t) >= 2 /\ t[1] = 39 /\ t[Len(t)] = 39

\* the scalar PyYAML emits for a value
ScalarText(val) ==
    IF val.k = "none" THEN TextNull
    ELSE IF val.k = "int"
         THEN (IF val.v[1] < 0 THEN << 45 >> \o Digits(0 - val.v[1]) ELSE Digits(val.v[1]))
    ELSE IF val.k = "dt" THEN IsoFormat(val.v)
    ELSE IF ResolveKind(val.v) # "str" THEN << 39 >> \o val.v \o << 39 >>
    ELSE val.v

\* the value PyYAML constructs from a scalar
ScalarValue(t) ==
    IF IsQuoted(t) THEN PyStr(Slice(t, 2, Len(t) - 1))
    ELSE IF ResolveKind(t) = "none" THEN PyNone
    ELSE IF ResolveKind(t) = "int"
         THEN (IF t[1] = 45 THEN PyInt(0 - LeadingNat(Tail(t))) ELSE PyInt(LeadingNat(t)))
    ELSE IF ResolveKind(t) = "dt"
         THEN PyDatetime(LeadingNat(Slice(t, 1, 4)), LeadingNat(Slice(t, 6, 7)),
                         LeadingNat(Slice(t, 9, 10)), LeadingNat(Slice(t, 12, 13)),
                         LeadingNat(Slice(t, 15, 16)), LeadingNat(Slice(t, 18, 19)))
    ELSE PyStr(t)

\* SafeDumper raises RepresenterError on a value it has no representer for
Representable(doc) == \A i \in 1..Len(doc) : doc[i].val.k # "obj"

\* A file's bytes are kept as the sequence of its lines, and a line
\* "key: scalar" as the pair of its two texts (a line that is no such pair
\* has the empty key).
Line(key, scalar) == [key |-> key, scalar |-> scalar]

\* yaml.dump that emits the items in the order of the mapping
yaml_dump_in_mapping_order(doc) ==
    [i \in 1..Len(doc) |-> Line(doc[i].key, ScalarText(doc[i].val))]

\* yaml.dump(document, Dumper=OrderedDumper, default_flow_style=False, ...):
\* one line per item. OrderedDict is represented by represent_dict, and
\* PyYAML's represent_mapping sorts the items of anything that has .items(),
\* so the lines come out sorted by key whatever the order of the mapping.
yaml_dump(doc) ==
    LET items == SortItems(doc)
    IN  [i \in 1..Len(items) |-> Line(items[i].key, ScalarText(items[i].val))]

IsKeyChar(c) == c = 95 \/ (c >= 97 /\ c <= 122)

IsEntryLine(line) == Len(line.key) > 0 /\ \A j \in 1..Len(line.key) : IsKeyChar(line.key[j])

RECURSIVE ConstructMapping(_)
\* OrderedLoader.construct_mapping: mapping[key] = value, line by line
ConstructMapping(lines) ==
    IF lines = <<>> THEN <<>>
    ELSE DocSet(ConstructMapping(Slice(lines, 1, Len(lines) - 1)),
                lines[Len(lines)].key, ScalarValue(lines[Len(lines)].scalar))

\* yaml.load(f, Loader=OrderedLoader): kind "none" for an empty stream (None),
\* "map" for a mapping, "error" when the parser raises
yaml_load(b) ==
    IF b = <<>> THEN [kind |-> "none", doc |-> <<>>]
    ELSE IF \A i \in 1..Len(b) : IsEntryLine(b[i])
    THEN [kind |-> "map", doc |-> ConstructMapping(b)]
    ELSE [kind |-> "error", doc |-> <<>>]

\* ------------------------------------------------------------ content hash
\* SHA-1 is modelled as an ideal digest: the digest of a byte string
\* determines the bytes (no collisions). A sha1 object is the input fed to it
\* so far; a hex digest wraps that input.

ChunkSize == 4096

Sha1Update(d, chunk) == d \o chunk

Sha1HexDigest(d) == [sha1 |-> d]

RECURSIVE ReadChunks(_, _, _)
\* the loop of get_file_hash: f.read(4096) until the chunk is empty
ReadChunks(bytes, pos, d) ==
    LET chunk == Slice(bytes, pos, IF pos + ChunkSize - 1 < Len(bytes)
                                   THEN pos + ChunkSize - 1 ELSE Len(bytes))
    IN  IF chunk = <<>> THEN Sha1HexDigest(d)
        ELSE ReadChunks(bytes, pos + ChunkSize, Sha1Update(d, chunk))

\* get_file_hash(filename) of a file holding bytes
get_file_hash(bytes) == ReadChunks(bytes, 1, <<>>)

\* ---------------------------------------------------------------- bounds

\* how many times the files are changed from outside the program
MaxExternal == 1

Names == {"posts", "pages"}

IdA == << 97 >>                                           \* "a"
IdB == << 98 >>                                           \* "b"
Ids == {IdA, IdB}

\* the ids used in a collection: two in posts, one in pages
IdsOf(c) == IF c = "posts" THEN Ids ELSE {IdA}

\* the indexes argument of declare_collection: posts is indexed on pub_date,
\* pages is declared without indexes
IndexesOf(name) == IF name = "posts" THEN {"pub_date"} ELSE {}

Date1899 == PyDatetime(1899, 12, 31, 23, 59, 59)
Date2011 == PyDatetime(2011, 1, 1, 17, 23, 0)
Date2012 == PyDatetime(2012, 2, 1, 12, 30, 0)

\* the dates of the documents of a collection
PubDatesOf(c) == IF c = "posts" THEN {Date1899, Date2011, Date2012} ELSE {Date2011}

\* the years asked for
Years == {2011, 2012}

\* the documents handed to save: plain dicts, with and without an _id
DocsOf(c) ==
    {[isdict |-> TRUE, items |-> << Item(KeyPubDate, p) >>] : p \in PubDatesOf(c)}
    \cup {[isdict |-> TRUE, items |-> << Item(KeyPubDate, p), Item(KeyId, PyStr(i)) >>] :
            p \in PubDatesOf(c), i \in IdsOf(c)}

\* what an outside writer puts into a document file
ExternalBytes(c, id) ==
    {yaml_dump(<< Item(KeyId, PyStr(id)), Item(KeyPubDate, p) >>) : p \in PubDatesOf(c) \ {Date1899}}
    \cup {<< Line(<<>>, << 123 >>) >>}                     \* "{"

\* ----------------------------------------------------------------- state

VARIABLES
    collections,    \* Database.collections: name -> Collection (or NoCollection)
    files,          \* the collection directories: name -> id -> file
    tables,         \* the index database: name -> rows in rowid order
    last,           \* the last call: what it was given and how it ended
    indexed,        \* history: name -> id -> the file's current content was indexed
    external,       \* history: how often the files were changed from outside
    query,          \* a Query object being built
    calls,          \* history: the builder calls made on query, with their arguments
    args,           \* the values handed to stringify
    out,            \* what stringify returned for them
    upserts         \* caller -> where it is in _update_index_for, and its transaction

vars ==
    << collections, files, tables, last, indexed, external, query, calls, args, out, upserts >>

\* the part of the state the document store does not touch
detached == << query, calls, args, out, upserts >>

NoCollection == [oid |-> 0, indexes |-> {}]
NoFile == [exists |-> FALSE, bytes |-> <<>>]
File(bytes) == [exists |-> TRUE, bytes |-> bytes]

Declared == {n \in Names : collections[n].oid # 0}

\* A finished call: what was called (op, on collection coll, with id or
\* year), how it ended (outcome "ok" or "raise", the exception in exc) and
\* what it returned: a document (doc; isnone when it is None), a list of
\* documents (docs), a number (n), a boolean (flag) or a Collection (obj).
\* For reindex, n counts the rows the pass wrote, coll is the collection whose
\* reindex raised, and again says that the call before it was a reindex that
\* returned; for save, again says that the call
\* before it was a save of the same fields under the same _id.  opened and closed count the
\* connections to the index database the call opened (get_index_db) and
\* closed (con.close).
NoCall ==
    [op |-> "init", coll |-> "", id |-> <<>>, year |-> 0, outcome |-> "ok", exc |-> "",
     doc |-> <<>>, isnone |-> FALSE, docs |-> <<>>, n |-> 0, flag |-> FALSE,
     obj |-> NoCollection, again |-> FALSE, opened |-> 0, closed |-> 0, vars |-> <<>>]

Returned(op, coll) == [NoCall EXCEPT !.op = op, !.coll = coll]

Raised(op, coll, exc) == [NoCall EXCEPT !.op = op, !.coll = coll, !.outcome = "raise", !.exc = exc]

\* ------------------------------------------------------------- Database

\* Collection.__init__: indexes = list(set(['_id']) | set(indexes or ()))
CollectionInit(oid, indexes) == [oid |-> oid, indexes |-> {"_id"} \cup indexes]

\* declare_collection without the check for a name in use
declare_collection_overwriting(name, indexes) ==
    /\ collections' = [collections EXCEPT
                         ![name] = CollectionInit(Cardinality(Declared) + 1, indexes)]
    /\ last' = [Returned("declare", name)
                  EXCEPT !.obj = collections'[name], !.opened = 1, !.closed = 1]
    /\ UNCHANGED << files, tables, indexed, external >>

\* Database.declare_collection(name, indexes); _ensure_indexes creates the
\* (empty) table of a new collection on a connection it closes in a finally
declare_collection(name, indexes) ==
    /\ IF name \in Declared
       THEN /\ last' = Raised("declare", name, "ValueError")
            /\ UNCHANGED collections
       ELSE /\ collections' = [collections EXCEPT
                                 ![name] = CollectionInit(Cardinality(Declared) + 1, indexes)]
            /\ last' = [Returned("declare", name)
                  EXCEPT !.obj = collections'[name], !.opened = 1, !.closed = 1]
    /\ UNCHANGED << files, tables, indexed, external >>

\* Database.get_collection(name): self.collections[name]
get_collection(name) ==
    /\ last' = IF name \in Declared
               THEN [Returned("get_collection", name) EXCEPT !.obj = collections[name]]
               ELSE Raised("get_collection", name, "KeyError")
    /\ UNCHANGED << collections, files, tables, indexed, external >>

\* ------------------------------------------------------------ Collection

\* the columns of a collection's table: the indexes and _hash
Columns(c) == collections[c].indexes \cup {"_hash"}

\* the rows a statement's "where _id = ?" selects
RowsOf(table, id) == SelectSeq(table, LAMBDA r : r["_id"] = id)

\* Collection.get(id) on the file of that id: None when there is no file;
\* raises when the file does not parse, or parses to None (rv['_id'] = id)
GetDoc(file, id) ==
    IF ~file.exists THEN [NoCall EXCEPT !.op = "get", !.isnone = TRUE]
    ELSE LET rv == yaml_load(file.bytes)
         IN  IF rv.kind = "error"
             THEN [NoCall EXCEPT !.op = "get", !.outcome = "raise", !.exc = "YAMLError"]
             ELSE IF rv.kind = "none"
             THEN [NoCall EXCEPT !.op = "get", !.outcome = "raise", !.exc = "TypeError"]
             ELSE [NoCall EXCEPT !.op = "get", !.doc = DocSet(rv.doc, KeyId, PyStr(id))]

\* the row _update_index_for inserts
IndexRow(indexes, document, hash) ==
    [col \in indexes \cup {"_hash"} |->
        IF col = "_hash" THEN hash ELSE stringify(DocGet(document, KeyText(col)))]

\* _update_index_for with the insert left out: the old row is deleted and
\* nothing takes its place
update_index_for_without_insert(table, indexes, document, hash) ==
    IF \E col \in indexes : stringify_raises(DocGet(document, KeyText(col)))
    THEN [raised |-> TRUE, table |-> table, opened |-> 1, closed |-> 1]
    ELSE [raised |-> FALSE, opened |-> 1, closed |-> 1,
          table |-> SelectSeq(table, LAMBDA r : r["_id"] # DocGet(document, KeyId).v)]

\* _update_index_for with con.close() after the commit, not in a finally
update_index_for_close_after_commit(table, indexes, document, hash) ==
    IF \E col \in indexes : stringify_raises(DocGet(document, KeyText(col)))
    THEN [raised |-> TRUE, table |-> table, opened |-> 1, closed |-> 0]
    ELSE [raised |-> FALSE, opened |-> 1, closed |-> 1,
          table |-> Append(SelectSeq(table, LAMBDA r : r["_id"] # DocGet(document, KeyId).v),
                           IndexRow(indexes, document, hash))]

\* Collection._update_index_for(document, hash) on its own connection:
\* delete, insert, commit; an exception closes the connection uncommitted,
\* which rolls the delete back
update_index_for(table, indexes, document, hash) ==
    IF \E col \in indexes : stringify_raises(DocGet(document, KeyText(col)))
    THEN [raised |-> TRUE, table |-> table, opened |-> 1, closed |-> 1]
    ELSE [raised |-> FALSE, opened |-> 1, closed |-> 1,
          table |-> Append(SelectSeq(table, LAMBDA r : r["_id"] # DocGet(document, KeyId).v),
                           IndexRow(indexes, document, hash))]

\* Collection.get(id)
get(c, id) ==
    /\ c \in Declared
    /\ last' = [GetDoc(files[c][id], id) EXCEPT !.coll = c, !.id = id]
    /\ UNCHANGED << collections, files, tables, indexed, external >>

\* uuid.uuid4(): an id no file and no row of the collection carries
FreshIds(c) == {i \in IdsOf(c) : ~files[c][i].exists /\ RowsOf(tables[c], i) = <<>>}

\* two mappings with the same keys and the same values
SameFields(d1, d2) == {d1[i] : i \in 1..Len(d1)} = {d2[i] : i \in 1..Len(d2)}

\* history: the call before was a save that returned, of the same fields
\* under the same _id, handed over as another mapping
Resaved(c, document, id) ==
    /\ last.op = "save" /\ last.outcome = "ok" /\ last.coll = c /\ last.id = id
    /\ SameFields(last.doc, document)
    /\ last.doc # document

\* save from "fn = ..." on, the document holding its _id
SaveWithId(c, document, id) ==
    IF ~Representable(document)
    THEN \* open(fn, 'w') has emptied the file when yaml.dump raises
         /\ files' = [files EXCEPT ![c][id] = File(<<>>)]
         /\ indexed' = [indexed EXCEPT ![c][id] = FALSE]
         /\ last' = [Raised("save", c, "RepresenterError") EXCEPT !.id = id]
         /\ UNCHANGED tables
    ELSE /\ files' = [files EXCEPT ![c][id] = File(yaml_dump(document))]
         /\ LET u == update_index_for(tables[c], collections[c].indexes, document,
                                      Sha1HexDigest(Sha1Update(<<>>, yaml_dump(document))))
            IN  /\ tables' = [tables EXCEPT ![c] = u.table]
                /\ indexed' = [indexed EXCEPT ![c][id] = ~u.raised]
                /\ last' = [IF u.raised THEN Raised("save", c, "ValueError")
                                        ELSE [Returned("save", c)
                                                EXCEPT !.doc = document,
                                                       !.again = Resaved(c, document, id)]
                               EXCEPT !.id = id, !.opened = u.opened, !.closed = u.closed]

\* a dict is rebuilt sorted by key; any other mapping keeps its order
Normalized(d) == IF d.isdict THEN SortItems(d.items) ELSE d.items

\* Collection.save(document)
save(c, d) ==
    /\ c \in Declared
    /\ DocGet(d.items, KeyId).k = "none" \/ DocGet(d.items, KeyId).v \in IdsOf(c)
    /\ IF DocGet(Normalized(d), KeyId).k = "none"
       THEN \E id \in FreshIds(c) :
               SaveWithId(c, DocSet(Normalized(d), KeyId, PyStr(id)), id)
       ELSE SaveWithId(c, Normalized(d), DocGet(Normalized(d), KeyId).v)
    /\ UNCHANGED << collections, external >>

\* In Collection.delete the name id is no parameter and no local: it is
\* Python's builtin function.
BuiltinId == [k |-> "builtin", v |-> <<>>]

\* os.path.join(a, b) calls b.startswith: AttributeError unless b is a string
PathJoinRaises(b) == b.k # "str"

\* Collection.delete(document), idv being the value its code uses as the id
DeleteById(c, document, idv) ==
    IF PathJoinRaises(idv)
    THEN /\ last' = [Raised("delete", c, "AttributeError") EXCEPT !.id = document]
         /\ UNCHANGED << files, tables, indexed >>
    ELSE IF ~files[c][idv.v].exists
    THEN \* os.remove raises OSError
         /\ last' = [Returned("delete", c) EXCEPT !.id = document, !.flag = FALSE]
         /\ UNCHANGED << files, tables, indexed >>
    ELSE /\ files' = [files EXCEPT ![c][idv.v] = NoFile]
         /\ indexed' = [indexed EXCEPT ![c][idv.v] = FALSE]
         /\ IF "id" \in Columns(c)
            THEN /\ tables' = [tables EXCEPT
                                 ![c] = SelectSeq(@, LAMBDA r : r["id"] # idv.v)]
                 /\ last' = [Returned("delete", c) EXCEPT !.id = document, !.flag = TRUE,
                                                         !.opened = 1, !.closed = 1]
            ELSE \* 'delete from <name> where id = ?': no such column; the
                 \* finally closes the connection
                 /\ last' = [Raised("delete", c, "OperationalError")
                               EXCEPT !.id = document, !.opened = 1, !.closed = 1]
                 /\ UNCHANGED tables

\* delete with the file named after its argument, the statement unchanged
delete_by_argument(c, document) ==
    /\ c \in Declared
    /\ DeleteById(c, document, PyStr(document))
    /\ UNCHANGED << collections, external >>

\* Collection.delete(document)
delete(c, document) ==
    /\ c \in Declared
    /\ DeleteById(c, document, BuiltinId)
    /\ UNCHANGED << collections, external >>

\* ------------------------------------------------------- query expressions
\* An expression is a record with a node kind; stringify_literal is the class
\* attribute of that name (True for _Name only).

_Name(name) == [node |-> "name", name |-> name, stringify_literal |-> TRUE]

_Literal(value, str) ==
    [node |-> "literal", value |-> value, stringify |-> str, stringify_literal |-> FALSE]

_Extract(expr, format) ==
    [node |-> "extract", expr |-> expr, format |-> format, stringify_literal |-> FALSE]

_IsNull(expr, is_null) ==
    [node |-> "isnull", expr |-> expr, is_null |-> is_null, stringify_literal |-> FALSE]

_Neg(expr) == [node |-> "neg", expr |-> expr, stringify_literal |-> FALSE]

_Op(left, right, op) ==
    [node |-> "op", left |-> left, right |-> right, op |-> op, stringify_literal |-> FALSE]

\* hasattr(other, 'to_sql')
HasToSql(x) == "node" \in DOMAIN x

\* _make_op that wraps the other operand in a literal that is never stringified
_make_op_plain_literal(self, other, op) ==
    IF ~HasToSql(other) THEN _Op(self, _Literal(other, FALSE), op)
    ELSE _Op(self, other, op)

\* _QueryExpression._make_op(other, op)
_make_op(self, other, op) ==
    IF ~HasToSql(other) THEN _Op(self, _Literal(other, self.stringify_literal), op)
    ELSE _Op(self, other, op)

\* other is None
IsNone(other) == ~HasToSql(other) /\ other.k = "none"

\* the operators of _QueryExpression
__neg__(self) == _Neg(self)
__and__(self, other) == _make_op(self, other, "and")
__eq__(self, other) == IF IsNone(other) THEN _IsNull(self, TRUE) ELSE _make_op(self, other, "=")
__ne__(self, other) == IF IsNone(other) THEN _IsNull(self, FALSE) ELSE _make_op(self, other, "<>")
__gt__(self, other) == _make_op(self, other, ">")
__ge__(self, other) == _make_op(self, other, ">=")
__lt__(self, other) == _make_op(self, other, "<")
__le__(self, other) == _make_op(self, other, "<=")

\* self op other, written with Python's comparison operator op
Comparison(self, op, other) ==
    IF op = "=" THEN __eq__(self, other)
    ELSE IF op = "<>" THEN __ne__(self, other)
    ELSE IF op = ">" THEN __gt__(self, other)
    ELSE IF op = ">=" THEN __ge__(self, other)
    ELSE IF op = "<" THEN __lt__(self, other)
    ELSE __le__(self, other)

\* the date parts: _QueryExpression.year and .month
FmtYear == << 37, 89 >>                                   \* "%Y"
FmtMonth == << 37, 109 >>                                 \* "%m"

\* year with the format of month
year_with_month_format(self) == _Extract(self, FmtMonth)

year(self) == _Extract(self, FmtYear)
month(self) == _Extract(self, FmtMonth)

\* What to_sql returns is kept as the statement's tree, a "?" node standing
\* where the text has a placeholder, with the values to bind in vars.
SqlCol(name) == [t |-> "col", name |-> name]
SqlParam == [t |-> "?"]
SqlCastStrftime(format, arg) == [t |-> "cast_strftime", format |-> format, arg |-> arg]
SqlBinOp(op, a, b) == [t |-> "binop", op |-> op, a |-> a, b |-> b]

\* the Python object stringify returns
StringifiedObject(value) == IF stringify(value) = Null THEN PyNone ELSE PyStr(stringify(value))

SqlIsNull(a, is_null) == [t |-> "isnull", a |-> a, is_null |-> is_null]
SqlDesc(a) == [t |-> "desc", a |-> a]

\* What a to_sql method hands back: the pair (sql, vars), a bare string (pair
\* is FALSE, vars is unused), or an exception (raised).
Pair(text, values) == [sql |-> text, vars |-> values, pair |-> TRUE, raised |-> FALSE]
BareString(text) == [sql |-> text, vars |-> <<>>, pair |-> FALSE, raised |-> FALSE]
ToSqlRaised == [sql |-> SqlParam, vars |-> <<>>, pair |-> FALSE, raised |-> TRUE]

\* 'sql, vars = x.to_sql()' raises: to_sql raised, or what it returned is a
\* string, which does not unpack into two names (ValueError)
UnpackRaises(r) == r.raised \/ ~r.pair

RECURSIVE to_sql(_)
to_sql(e) ==
    IF e.node = "name" THEN Pair(SqlCol(e.name), <<>>)
    ELSE IF e.node = "literal"
    THEN IF e.stringify /\ stringify_raises(e.value) THEN ToSqlRaised
         ELSE Pair(SqlParam, << IF e.stringify THEN StringifiedObject(e.value) ELSE e.value >>)
    ELSE IF e.node = "extract"
    THEN IF UnpackRaises(to_sql(e.expr)) THEN ToSqlRaised
         ELSE Pair(SqlCastStrftime(e.format, to_sql(e.expr).sql), to_sql(e.expr).vars)
    ELSE IF e.node = "isnull"
    THEN IF UnpackRaises(to_sql(e.expr)) THEN ToSqlRaised
         ELSE BareString(SqlIsNull(to_sql(e.expr).sql, e.is_null))
    ELSE IF e.node = "neg"
    THEN IF UnpackRaises(to_sql(e.expr)) THEN ToSqlRaised
         ELSE Pair(SqlDesc(to_sql(e.expr).sql), to_sql(e.expr).vars)
    ELSE IF UnpackRaises(to_sql(e.left)) \/ UnpackRaises(to_sql(e.right)) THEN ToSqlRaised
    ELSE Pair(SqlBinOp(e.op, to_sql(e.left).sql, to_sql(e.right).sql),
              to_sql(e.left).vars \o to_sql(e.right).vars)

\* ------------------------------------------------------------------ Query

NoExpr == [node |-> "none"]

\* Query.__init__
QueryInit ==
    [where_sql |-> <<>>, where_vars |-> <<>>, order_sql |-> <<>>, order_vars |-> <<>>,
     limit |-> NoExpr, offset |-> NoExpr]

\* Query.filter(expr)
filter(q, expr) ==
    [q EXCEPT !.where_sql = Append(@, to_sql(expr).sql), !.where_vars = @ \o to_sql(expr).vars]

\* Query.order_by(expr)
order_by(q, expr) ==
    [q EXCEPT !.order_sql = Append(@, to_sql(expr).sql), !.order_vars = @ \o to_sql(expr).vars]

\* Query.limit(value)
limit(q, value) ==
    [q EXCEPT !.limit = IF HasToSql(value) THEN value ELSE _Literal(value, FALSE)]

\* Query.offset(value)
offset(q, value) ==
    [q EXCEPT !.offset = IF HasToSql(value) THEN value ELSE _Literal(value, FALSE)]

\* _make_select that binds the order-by values before the filter values
make_select_order_vars_first(q, columns) ==
    [columns |-> columns,
     where |-> q.where_sql,
     order |-> IF q.order_sql = <<>> THEN << SqlCol("_id") >> ELSE q.order_sql,
     limit |-> IF q.limit.node = "none" THEN << >> ELSE << to_sql(q.limit).sql >>,
     offset |-> IF q.limit.node = "none" \/ q.offset.node = "none" THEN << >>
                ELSE << to_sql(q.offset).sql >>,
     vars |-> q.order_vars \o q.where_vars
              \o (IF q.limit.node = "none" THEN <<>>
                  ELSE to_sql(q.limit).vars
                       \o (IF q.offset.node = "none" THEN <<>> ELSE to_sql(q.offset).vars))]

\* _make_select with the offset clause outside the test for a limit
make_select_offset_unguarded(q, columns) ==
    [columns |-> columns,
     where |-> q.where_sql,
     order |-> IF q.order_sql = <<>> THEN << SqlCol("_id") >> ELSE q.order_sql,
     limit |-> IF q.limit.node = "none" THEN << >> ELSE << to_sql(q.limit).sql >>,
     offset |-> IF q.offset.node = "none" THEN << >> ELSE << to_sql(q.offset).sql >>,
     vars |-> q.where_vars \o q.order_vars
              \o (IF q.limit.node = "none" THEN <<>> ELSE to_sql(q.limit).vars)
              \o (IF q.offset.node = "none" THEN <<>> ELSE to_sql(q.offset).vars)]

\* Query._make_select(columns): the statement and the values to bind.
\* The text is 'select .. from .. where <w1 and w2 ..> order by <o1, o2 ..>',
\* with ['_id'] for an empty order list, then ' limit ..' and, only after a
\* limit, ' offset ..'.
make_select(q, columns) ==
    [columns |-> columns,
     where |-> q.where_sql,
     order |-> IF q.order_sql = <<>> THEN << SqlCol("_id") >> ELSE q.order_sql,
     limit |-> IF q.limit.node = "none" THEN << >> ELSE << to_sql(q.limit).sql >>,
     offset |-> IF q.limit.node = "none" \/ q.offset.node = "none" THEN << >>
                ELSE << to_sql(q.offset).sql >>,
     vars |-> q.where_vars \o q.order_vars
              \o (IF q.limit.node = "none" THEN <<>>
                  ELSE to_sql(q.limit).vars
                       \o (IF q.offset.node = "none" THEN <<>> ELSE to_sql(q.offset).vars))]

\* _make_select raises when the to_sql of the limit or of the offset does not
\* unpack
make_select_raises(q) ==
    /\ q.limit.node # "none"
    /\ \/ UnpackRaises(to_sql(q.limit))
       \/ q.offset.node # "none" /\ UnpackRaises(to_sql(q.offset))

\* ------------------------------------------------ the index database (SQL)
\* What sqlite computes for a statement tree: values are NULL, integers and
\* texts; NULL < integer < text in comparisons and in order by.

SqlNull == [t |-> "null", v |-> <<>>]
SqlInt(n) == [t |-> "int", v |-> << n >>]
SqlText(x) == [t |-> "text", v |-> x]

\* the value of an index column (declared text)
FromColumn(x) == IF x = Null THEN SqlNull ELSE SqlText(x)

\* how sqlite3 binds a Python object to a placeholder
Bind(value) ==
    IF value.k = "none" THEN SqlNull
    ELSE IF value.k = "int" THEN SqlInt(value.v[1])
    ELSE IF value.k = "dt" THEN SqlText(IsoFormat(value.v))
    ELSE SqlText(value.v)

RECURSIVE CountParams(_)
CountParams(tree) ==
    IF tree.t = "?" THEN 1
    ELSE IF tree.t = "cast_strftime" THEN CountParams(tree.arg)
    ELSE IF tree.t = "binop" THEN CountParams(tree.a) + CountParams(tree.b)
    ELSE IF tree.t = "isnull" \/ tree.t = "desc" THEN CountParams(tree.a)
    ELSE 0

RECURSIVE ColumnsIn(_)
ColumnsIn(tree) ==
    IF tree.t = "col" THEN {tree.name}
    ELSE IF tree.t = "cast_strftime" THEN ColumnsIn(tree.arg)
    ELSE IF tree.t = "binop" THEN ColumnsIn(tree.a) \cup ColumnsIn(tree.b)
    ELSE IF tree.t = "isnull" \/ tree.t = "desc" THEN ColumnsIn(tree.a)
    ELSE {}

\* the affinity of an operand of a comparison
Affinity(tree) ==
    IF tree.t = "col" THEN "text" ELSE IF tree.t = "cast_strftime" THEN "int" ELSE "none"

\* sqlite's date-time texts: YYYY-MM-DD, then optionally T or a blank and
\* HH:MM, optionally :SS, optionally Z. (A text that is a number would be a
\* Julian day; index columns of dates hold none.)
IsDateText(x) ==
    /\ Len(x) \in {10, 16, 17, 19, 20}
    /\ \A i \in {1, 2, 3, 4, 6, 7, 9, 10} : IsDigit(x[i])
    /\ x[5] = 45 /\ x[8] = 45
    /\ Len(x) > 10 =>
         /\ x[11] \in {84, 32}
         /\ \A i \in {12, 13, 15, 16} : IsDigit(x[i])
         /\ x[14] = 58
    /\ Len(x) \in {17, 20} => x[Len(x)] = 90
    /\ Len(x) >= 19 => x[17] = 58 /\ IsDigit(x[18]) /\ IsDigit(x[19])

\* the text strftime puts for one conversion letter
DatePart(letter, x) ==
    IF letter = 89 THEN Slice(x, 1, 4)                                  \* %Y
    ELSE IF letter = 109 THEN Slice(x, 6, 7)                            \* %m
    ELSE IF letter = 100 THEN Slice(x, 9, 10)                           \* %d
    ELSE IF letter = 72 THEN (IF Len(x) > 10 THEN Slice(x, 12, 13) ELSE << 48, 48 >>)  \* %H
    ELSE IF letter = 77 THEN (IF Len(x) > 10 THEN Slice(x, 15, 16) ELSE << 48, 48 >>)  \* %M
    ELSE (IF Len(x) >= 19 THEN Slice(x, 18, 19) ELSE << 48, 48 >>)      \* %S

RECURSIVE FormatDate(_, _, _)
FormatDate(format, i, x) ==
    IF i > Len(format) THEN <<>>
    ELSE IF format[i] = 37 /\ i < Len(format)
    THEN DatePart(format[i + 1], x) \o FormatDate(format, i + 2, x)
    ELSE << format[i] >> \o FormatDate(format, i + 1, x)

\* strftime(format, value)
SqlStrftime(format, value) ==
    IF value.t = "text" /\ IsDateText(value.v) THEN SqlText(FormatDate(format, 1, value.v))
    ELSE SqlNull

\* cast(value as integer): the integer a text starts with
SqlCastInteger(value) ==
    IF value.t = "text" THEN SqlInt(LeadingNat(value.v)) ELSE value

\* a comparison gives the operand without affinity the other one's
WithAffinity(value, own, other) ==
    IF other = "int" /\ own # "int" /\ value.t = "text" /\ IsIntText(value.v)
    THEN SqlInt(IF value.v[1] = 45 THEN 0 - LeadingNat(Tail(value.v)) ELSE LeadingNat(value.v))
    ELSE IF other = "text" /\ own = "none" /\ value.t = "int"
    THEN SqlText(IF value.v[1] < 0 THEN << 45 >> \o Digits(0 - value.v[1]) ELSE Digits(value.v[1]))
    ELSE value

Rank(value) == IF value.t = "null" THEN 0 ELSE IF value.t = "int" THEN 1 ELSE 2

SqlLess(x, y) ==
    IF Rank(x) # Rank(y) THEN Rank(x) < Rank(y)
    ELSE IF x.t = "int" THEN x.v[1] < y.v[1]
    ELSE IF x.t = "text" THEN TextLess(x.v, y.v)
    ELSE FALSE

SqlBool(b) == IF b THEN SqlInt(1) ELSE SqlInt(0)

\* a comparison of two values, NULL when either is
SqlCompare(op, x, y) ==
    IF x.t = "null" \/ y.t = "null" THEN SqlNull
    ELSE IF op = "=" THEN SqlBool(~SqlLess(x, y) /\ ~SqlLess(y, x))
    ELSE IF op = "<>" THEN SqlBool(SqlLess(x, y) \/ SqlLess(y, x))
    ELSE IF op = "<" THEN SqlBool(SqlLess(x, y))
    ELSE IF op = "<=" THEN SqlBool(~SqlLess(y, x))
    ELSE IF op = ">" THEN SqlBool(SqlLess(y, x))
    ELSE SqlBool(~SqlLess(x, y))

IsTrue(value) == value.t = "int" /\ value.v[1] # 0
IsFalse(value) == value.t = "int" /\ value.v[1] = 0

SqlLogic(op, x, y) ==
    IF op = "and"
    THEN (IF IsFalse(x) \/ IsFalse(y) THEN SqlInt(0)
          ELSE IF IsTrue(x) /\ IsTrue(y) THEN SqlInt(1) ELSE SqlNull)
    ELSE (IF IsTrue(x) \/ IsTrue(y) THEN SqlInt(1)
          ELSE IF IsFalse(x) /\ IsFalse(y) THEN SqlInt(0) ELSE SqlNull)

RECURSIVE SqlEval(_, _, _, _)
\* the value of a tree on a row; used is how many placeholders stand before it
SqlEval(tree, params, used, row) ==
    IF tree.t = "col" THEN FromColumn(row[tree.name])
    ELSE IF tree.t = "?" THEN Bind(params[used + 1])
    ELSE IF tree.t = "cast_strftime"
    THEN SqlCastInteger(SqlStrftime(tree.format, SqlEval(tree.arg, params, used, row)))
    ELSE LET x == SqlEval(tree.a, params, used, row)
             y == SqlEval(tree.b, params, used + CountParams(tree.a), row)
         IN  IF tree.op \in {"and", "or"} THEN SqlLogic(tree.op, x, y)
             ELSE SqlCompare(tree.op, WithAffinity(x, Affinity(tree.a), Affinity(tree.b)),
                                      WithAffinity(y, Affinity(tree.b), Affinity(tree.a)))

RECURSIVE ParamsOf(_)
\* the placeholders of a list of trees
ParamsOf(trees) == IF trees = <<>> THEN 0 ELSE CountParams(Head(trees)) + ParamsOf(Tail(trees))

\* where t1 and t2 ..: every term is true on the row
Matches(stmt, row) ==
    \A i \in 1..Len(stmt.where) :
        IsTrue(SqlEval(stmt.where[i], stmt.vars, ParamsOf(Slice(stmt.where, 1, i - 1)), row))

RECURSIVE RowBefore(_, _, _, _)
\* r1 sorts before r2 under the order terms from the i-th on
RowBefore(stmt, i, r1, r2) ==
    IF i > Len(stmt.order) THEN FALSE
    ELSE LET used == ParamsOf(stmt.where) + ParamsOf(Slice(stmt.order, 1, i - 1))
             k1 == SqlEval(stmt.order[i], stmt.vars, used, r1)
             k2 == SqlEval(stmt.order[i], stmt.vars, used, r2)
         IN  IF SqlLess(k1, k2) THEN TRUE
             ELSE IF SqlLess(k2, k1) THEN FALSE
             ELSE RowBefore(stmt, i + 1, r1, r2)

RECURSIVE InsertRow(_, _, _)
InsertRow(stmt, sorted, r) ==
    IF sorted = <<>> THEN << r >>
    ELSE IF RowBefore(stmt, 1, r, Head(sorted)) THEN << r >> \o sorted
    ELSE << Head(sorted) >> \o InsertRow(stmt, Tail(sorted), r)

RECURSIVE SortRows(_, _)
\* order by: rows with equal keys stay in rowid order
SortRows(stmt, rows) ==
    IF rows = <<>> THEN <<>>
    ELSE InsertRow(stmt, SortRows(stmt, Slice(rows, 1, Len(rows) - 1)), rows[Len(rows)])

\* the statement cannot be prepared: 'where  order by' with no filter is a
\* syntax error, and so is a column the table does not have
StatementFails(c, stmt) ==
    \/ stmt.where = <<>>
    \/ \E i \in 1..Len(stmt.where) : ~(ColumnsIn(stmt.where[i]) \subseteq Columns(c))
    \/ \E i \in 1..Len(stmt.order) : ~(ColumnsIn(stmt.order[i]) \subseteq Columns(c))

\* limit n offset m of the sorted rows
Window(stmt, rows) ==
    IF stmt.limit = <<>> THEN rows
    ELSE LET n == SqlEval(stmt.limit[1], stmt.vars,
                          ParamsOf(stmt.where) + ParamsOf(stmt.order), <<>>).v[1]
             m == IF stmt.offset = <<>> THEN 0
                  ELSE SqlEval(stmt.offset[1], stmt.vars,
                               ParamsOf(stmt.where) + ParamsOf(stmt.order)
                               + ParamsOf(stmt.limit), <<>>).v[1]
         IN  Slice(rows, m + 1, IF n < 0 \/ m + n > Len(rows) THEN Len(rows) ELSE m + n)

\* cur.execute(sql, vars) and the rows it yields
Execute(c, stmt) ==
    Window(stmt, SortRows(stmt, SelectSeq(tables[c], LAMBDA r : Matches(stmt, r))))

\* with self._find_as_cursor(['_id']) as cur: the connection is opened before
\* the statement runs and closed in a finally, however the body ends
find_as_cursor(r) == [r EXCEPT !.opened = 1, !.closed = 1]

\* Query.first()
QueryFirst(c, q) ==
    LET stmt == make_select(q, << "_id" >>)
        rows == Execute(c, stmt)
    IN  IF StatementFails(c, stmt)
        THEN [NoCall EXCEPT !.outcome = "raise", !.exc = "OperationalError"]
        ELSE IF rows = <<>> THEN [NoCall EXCEPT !.isnone = TRUE]
        ELSE GetDoc(files[c][rows[1]["_id"]], rows[1]["_id"])

RECURSIVE ResolveAll(_, _, _)
\* the loop of Query.all(): get every row's id, keep what is not None
ResolveAll(c, rows, result) ==
    IF rows = <<>> THEN [NoCall EXCEPT !.docs = result]
    ELSE LET rv == GetDoc(files[c][Head(rows)["_id"]], Head(rows)["_id"])
         IN  IF rv.outcome = "raise" THEN rv
             ELSE ResolveAll(c, Tail(rows), IF rv.isnone THEN result ELSE Append(result, rv.doc))

\* Query.all()
QueryAll(c, q) ==
    LET stmt == make_select(q, << "_id" >>)
    IN  IF StatementFails(c, stmt)
        THEN [NoCall EXCEPT !.outcome = "raise", !.exc = "OperationalError"]
        ELSE ResolveAll(c, Execute(c, stmt), <<>>)

\* C is the field accessor: C.pub_date is _Name('pub_date')
YearIs(y) == __eq__(year(_Name("pub_date")), PyInt(y))

\* collection.query.filter(C.pub_date.year == y).first()
first(c, y) ==
    /\ c \in Declared
    /\ last' = [find_as_cursor(QueryFirst(c, filter(QueryInit, YearIs(y))))
                   EXCEPT !.op = "first", !.coll = c, !.year = y]
    /\ UNCHANGED << collections, files, tables, indexed, external >>

\* collection.query.filter(C.pub_date.year == y).all()
all(c, y) ==
    /\ c \in Declared
    /\ last' = [find_as_cursor(QueryAll(c, filter(QueryInit, YearIs(y))))
                   EXCEPT !.op = "all", !.coll = c, !.year = y]
    /\ UNCHANGED << collections, files, tables, indexed, external >>

\* the builder calls made on a fresh Query: filter(expr), then limit(lim) and
\* offset(off) where they are made (NoExpr where not)
Built(expr, lim, off) ==
    LET f == filter(QueryInit, expr)
        l == IF HasToSql(lim) THEN f ELSE limit(f, lim)
    IN  IF HasToSql(off) THEN l ELSE offset(l, off)

\* C.pub_date <op> value
PubDateIs(op, value) == Comparison(_Name("pub_date"), op, value)

\* collection.query.filter(C.pub_date <op> value)[.limit(lim)][.offset(off)].all():
\* filter raises what to_sql raises; vars are the values _find_as_cursor
\* hands to cur.execute
filter_all(c, op, value, lim, off) ==
    /\ c \in Declared
    /\ calls' = << [m |-> "filter", arg |-> PubDateIs(op, value),
                   ok |-> ~UnpackRaises(to_sql(PubDateIs(op, value)))],
                  [m |-> "limit", arg |-> lim, ok |-> ~HasToSql(lim)],
                  [m |-> "offset", arg |-> off, ok |-> ~HasToSql(off)] >>
    /\ IF UnpackRaises(to_sql(PubDateIs(op, value)))
       THEN /\ query' = QueryInit
            /\ last' = Raised("filter", c, "ValueError")
       ELSE \E q \in {Built(PubDateIs(op, value), lim, off)} :
            /\ query' = q
            /\ last' = [find_as_cursor(QueryAll(c, q))
                           EXCEPT !.op = "filter.all", !.coll = c,
                                  !.vars = make_select(q, << "_id" >>).vars]
    /\ UNCHANGED << collections, files, tables, indexed, external, args, out, upserts >>

\* ---------------------------------------------------------------- reindex

\* the ways to enumerate a set (dict.itervalues, os.listdir: any order)
Orders(S) == {o \in [1..Cardinality(S) -> S] : \A i, j \in 1..Cardinality(S) : o[i] = o[j] => i = j}

\* _try_reindex_file that takes any row of the id as up to date, without
\* comparing the hash
try_reindex_file_trusting_row(c, id, acc) ==
    LET row == RowsOf(acc.tables[c], id)
        document == GetDoc(files[c][id], id)
        u == update_index_for(acc.tables[c], collections[c].indexes, document.doc,
                              get_file_hash(files[c][id].bytes))
    IN  IF row # <<>> THEN acc
        ELSE IF document.outcome = "raise"
        THEN [acc EXCEPT !.raised = TRUE, !.exc = document.exc]
        ELSE IF document.isnone THEN acc
        ELSE IF u.raised
        THEN [acc EXCEPT !.raised = TRUE, !.exc = "ValueError",
                         !.opened = @ + u.opened, !.closed = @ + u.closed]
        ELSE [acc EXCEPT !.tables[c] = u.table, !.writes = @ + 1,
                         !.done = @ \cup {<< c, id >>},
                         !.opened = @ + u.opened, !.closed = @ + u.closed]

\* _try_reindex_file that never takes the early return: every file is
\* indexed again on every pass
try_reindex_file_always(c, id, acc) ==
    LET document == GetDoc(files[c][id], id)
        u == update_index_for(acc.tables[c], collections[c].indexes, document.doc,
                              get_file_hash(files[c][id].bytes))
    IN  IF document.outcome = "raise"
        THEN [acc EXCEPT !.raised = TRUE, !.exc = document.exc]
        ELSE IF document.isnone THEN acc
        ELSE IF u.raised
        THEN [acc EXCEPT !.raised = TRUE, !.exc = "ValueError",
                         !.opened = @ + u.opened, !.closed = @ + u.closed]
        ELSE [acc EXCEPT !.tables[c] = u.table, !.writes = @ + 1,
                         !.done = @ \cup {<< c, id >>},
                         !.opened = @ + u.opened, !.closed = @ + u.closed]

\* Collection._try_reindex_file(full_filename, id, cur), acc the pass so far:
\* the tables, the count of rows written, the files indexed, and whether an
\* exception ended the pass. The row is written through a connection of its
\* own (_update_index_for without cur), so it is committed at once.
try_reindex_file(c, id, acc) ==
    LET hash == get_file_hash(files[c][id].bytes)
        row == RowsOf(acc.tables[c], id)
        document == GetDoc(files[c][id], id)
        u == update_index_for(acc.tables[c], collections[c].indexes, document.doc, hash)
    IN  IF row # <<>> /\ row[1]["_hash"] = hash THEN acc
        ELSE IF document.outcome = "raise"
        THEN [acc EXCEPT !.raised = TRUE, !.exc = document.exc]
        ELSE IF document.isnone THEN acc
        ELSE IF u.raised
        THEN [acc EXCEPT !.raised = TRUE, !.exc = "ValueError",
                         !.opened = @ + u.opened, !.closed = @ + u.closed]
        ELSE [acc EXCEPT !.tables[c] = u.table, !.writes = @ + 1,
                         !.done = @ \cup {<< c, id >>},
                         !.opened = @ + u.opened, !.closed = @ + u.closed]

RECURSIVE reindex_files(_, _, _)
\* Collection.reindex(cur): the files of the directory in listing order
reindex_files(c, listing, acc) ==
    IF listing = <<>> \/ acc.raised THEN acc
    ELSE reindex_files(c, Tail(listing),
                       IF files[c][Head(listing)].exists
                       THEN try_reindex_file(c, Head(listing), acc)
                       ELSE acc)

\* what os.listdir may return for each directory
Listings ==
    {l \in [Names -> UNION {Orders(IdsOf(n)) : n \in Names}] :
        \A n \in Names : l[n] \in Orders(IdsOf(n))}

\* an exception leaving collection.reindex(cur) of collection c
RaisedIn(c, acc) == IF acc.raised THEN [acc EXCEPT !.coll = c] ELSE acc

RECURSIVE reindex_collections(_, _, _)
\* the loop of Database.reindex: collection.reindex(cur) for each collection
reindex_collections(colls, listing, acc) ==
    IF colls = <<>> \/ acc.raised THEN acc
    ELSE reindex_collections(Tail(colls), listing,
            RaisedIn(Head(colls), reindex_files(Head(colls), listing[Head(colls)], acc)))

\* the state of a pass before its first collection
PassInit ==
    [tables |-> tables, writes |-> 0, done |-> {}, raised |-> FALSE, exc |-> "",
     coll |-> "", opened |-> 1, closed |-> 0]

\* a pass whose rows all belong to the one transaction of the pass's
\* connection: closing the connection after an exception rolls them back
ReindexPass_in_one_transaction(colls, listing) ==
    LET pass == reindex_collections(colls, listing, PassInit)
    IN  IF pass.raised THEN [pass EXCEPT !.tables = tables] ELSE pass

ReindexPass(colls, listing) == reindex_collections(colls, listing, PassInit)

\* Database.reindex(): one connection for the pass, closed in a finally
reindex ==
    \E colls \in Orders(Declared) : \E listing \in Listings :
        \E pass \in {ReindexPass(colls, listing)} :
            /\ tables' = pass.tables
            /\ indexed' = [n \in Names |-> [i \in Ids |->
                              indexed[n][i] \/ << n, i >> \in pass.done]]
            /\ last' = [IF pass.raised THEN Raised("reindex", pass.coll, pass.exc)
                                         ELSE Returned("reindex", "")
                           EXCEPT !.n = pass.writes,
                                  !.again = last.op = "reindex" /\ last.outcome = "ok",
                                  !.opened = pass.opened, !.closed = pass.closed + 1]
            /\ UNCHANGED << collections, files, external >>
            /\ UNCHANGED detached

\* ------------------------------------------------------------ environment

\* somebody else overwrites or creates a document file
ExternalWrite(c, id, bytes) ==
    /\ c \in Declared
    /\ external < MaxExternal
    /\ external' = external + 1
    /\ files' = [files EXCEPT ![c][id] = File(bytes)]
    /\ indexed' = [indexed EXCEPT ![c][id] = FALSE]
    /\ last' = NoCall
    /\ UNCHANGED << collections, tables >>

\* somebody else removes a document file
ExternalRemove(c, id) ==
    /\ c \in Declared
    /\ external < MaxExternal
    /\ files[c][id].exists
    /\ external' = external + 1
    /\ files' = [files EXCEPT ![c][id] = NoFile]
    /\ indexed' = [indexed EXCEPT ![c][id] = FALSE]
    /\ last' = NoCall
    /\ UNCHANGED << collections, tables >>

\* --------------------------------------------------------- building queries

\* the number of builder calls made on one Query
MaxCalls == 4

FieldPubDate == _Name("pub_date")
FieldTitle == _Name("title")

\* the expressions handed to filter: a comparison with a literal, a
\* conjunction over a date part, comparisons with None alone and inside a
\* conjunction
FilterExprs ==
    << __eq__(FieldPubDate, PyInt(1)),
       __and__(YearIs(2011), __gt__(FieldTitle, PyStr(<< 97 >>))),
       __eq__(FieldPubDate, PyNone),
       __and__(__ne__(FieldTitle, PyNone), __eq__(FieldPubDate, PyInt(1))) >>

\* the expressions handed to order_by: a field, a descending field, a
\* descending comparison and a literal
OrderExprs ==
    << FieldPubDate,
       __neg__(FieldTitle),
       __neg__(__eq__(FieldPubDate, PyInt(2))),
       _Literal(PyInt(5), TRUE) >>

\* the values handed to limit and to offset
LimitValues == << PyInt(3), PyInt(10) >>
OffsetValues == << PyInt(4) >>

\* a builder call on query: it raises what the unpacking of to_sql raises,
\* else it leaves q
Build(m, arg, raises, q) ==
    /\ Len(calls) < MaxCalls
    /\ calls' = Append(calls, [m |-> m, arg |-> arg, ok |-> ~raises])
    /\ query' = IF raises THEN query ELSE q
    /\ last' = IF raises THEN Raised(m, "", "ValueError") ELSE Returned(m, "")
    /\ UNCHANGED << collections, files, tables, indexed, external, args, out, upserts >>

\* query.filter(expr)
QueryFilter == \E i \in 1..Len(FilterExprs) :
    Build("filter", FilterExprs[i], UnpackRaises(to_sql(FilterExprs[i])),
          filter(query, FilterExprs[i]))

\* query.order_by(expr)
QueryOrderBy == \E i \in 1..Len(OrderExprs) :
    Build("order_by", OrderExprs[i], UnpackRaises(to_sql(OrderExprs[i])),
          order_by(query, OrderExprs[i]))

\* query.limit(value)
QueryLimit == \E i \in 1..Len(LimitValues) :
    Build("limit", _Literal(LimitValues[i], FALSE), FALSE, limit(query, LimitValues[i]))

\* query.offset(value)
QueryOffset == \E i \in 1..Len(OffsetValues) :
    Build("offset", _Literal(OffsetValues[i], FALSE), FALSE, offset(query, OffsetValues[i]))

\* query._make_select(['_id']): n is the length of the values to bind
MakeSelect ==
    /\ last' = IF make_select_raises(query) THEN Raised("_make_select", "", "ValueError")
               ELSE [Returned("_make_select", "")
                       EXCEPT !.n = Len(make_select(query, << "_id" >>).vars)]
    /\ UNCHANGED << collections, files, tables, indexed, external, query, calls, args, out,
                    upserts >>

\* ------------------------------------------------------- mappings to save

TitleT == PyStr(<< 116 >>)

\* the field sets of the documents of posts: a pub_date and a title, with
\* and without an _id
FieldSets ==
    {{Item(KeyPubDate, p), Item(KeyTitle, TitleT)} : p \in {Date2011, Date2012}}
    \cup {{Item(KeyPubDate, p), Item(KeyTitle, TitleT), Item(KeyId, PyStr(i))} :
            p \in {Date2011, Date2012}, i \in IdsOf("posts")}

\* every field set as a plain dict and as an OrderedDict, in every insertion
\* order
Mappings ==
    {[isdict |-> b, items |-> o] :
        b \in BOOLEAN, o \in UNION {Orders(fs) : fs \in FieldSets}}

SaveMapping == (\E d \in Mappings : save("posts", d)) /\ UNCHANGED detached

\* ---------------------------------------------------- comparing a field

CompareOps == {"=", "<>", ">", ">=", "<", "<="}

\* the values compared with pub_date: datetimes, one of them before 1900, an
\* int, the text a datetime is indexed as, and None
CompareValues ==
    {Date1899, Date2011, PyInt(2011), PyStr(StrftimeIso(Date2011.v)), PyNone}

\* the values handed to limit and to offset, NoExpr where the method is not
\* called: neither, or a limit with an offset
Windows == << << NoExpr, NoExpr >>, << PyInt(10), PyInt(1) >> >>

FilterAll ==
    \E op \in CompareOps : \E value \in CompareValues : \E w \in 1..Len(Windows) :
        filter_all("posts", op, value, Windows[w][1], Windows[w][2])

\* the documents the comparisons run on: a pub_date under a given _id, two
\* dates for the first id and one for the second
DatedDocs ==
    {[isdict |-> TRUE, items |-> << Item(KeyPubDate, p), Item(KeyId, PyStr(IdA)) >>] :
        p \in {Date2011, Date2012}}
    \cup {[isdict |-> TRUE, items |-> << Item(KeyPubDate, Date2011), Item(KeyId, PyStr(IdB)) >>]}

SaveDated == (\E d \in DatedDocs : save("posts", d)) /\ UNCHANGED detached

DeclarePosts == declare_collection("posts", IndexesOf("posts")) /\ UNCHANGED detached

\* ------------------------------------------------------ concurrent upserts
\* _update_index_for statement by statement, for callers (save or
\* _try_reindex_file, in other threads or processes) that each use their own
\* connection.  sqlite3 begins a transaction before the delete; sqlite lets
\* one connection write at a time, and the others read the committed table
\* until the writer commits.

Callers == {1, 2}

IdleUpsert ==
    [pc |-> "idle", coll |-> "", document |-> <<>>, hash |-> Sha1HexDigest(<<>>), work |-> <<>>]

\* another connection holds the write lock
DatabaseLocked(k) == \E j \in Callers \ {k} : upserts[j].pc # "idle"

\* no transaction is open
Quiet == \A k \in Callers : upserts[k].pc = "idle"

\* cur.execute('delete from .. where _id = ?'): with the database locked by
\* another writer the statement raises (database is locked) once the busy
\* timeout is over, and the finally closes the connection
upsert_delete(k, c, document, hash) ==
    /\ c \in Declared
    /\ upserts[k].pc = "idle"
    /\ IF DatabaseLocked(k)
       THEN /\ last' = [Raised("_update_index_for", c, "OperationalError")
                          EXCEPT !.opened = 1, !.closed = 1]
            /\ UNCHANGED upserts
       ELSE /\ upserts' = [upserts EXCEPT ![k] =
                             [pc |-> "deleted", coll |-> c, document |-> document,
                              hash |-> hash,
                              work |-> SelectSeq(tables[c], LAMBDA r :
                                           r["_id"] # DocGet(document, KeyId).v)]]
            /\ last' = NoCall
    /\ UNCHANGED << collections, files, tables, indexed, external, query, calls, args, out >>

\* the insert committed on its own, onto the table as committed
upsert_insert_autocommit(k) ==
    /\ upserts[k].pc = "deleted"
    /\ tables' = [tables EXCEPT ![upserts[k].coll] =
                     Append(@, IndexRow(collections[upserts[k].coll].indexes,
                                        upserts[k].document, upserts[k].hash))]
    /\ upserts' = [upserts EXCEPT ![k] = IdleUpsert]
    /\ last' = [Returned("_update_index_for", upserts[k].coll)
                  EXCEPT !.opened = 1, !.closed = 1]
    /\ UNCHANGED << collections, files, indexed, external, query, calls, args, out >>

\* the values are stringified and cur.execute('insert into ..') runs in the
\* transaction of the delete; a stringify that raises ends in the finally,
\* which closes the connection and so rolls the delete back
upsert_insert(k) ==
    /\ upserts[k].pc = "deleted"
    /\ IF \E col \in collections[upserts[k].coll].indexes :
             stringify_raises(DocGet(upserts[k].document, KeyText(col)))
       THEN /\ upserts' = [upserts EXCEPT ![k] = IdleUpsert]
            /\ last' = [Raised("_update_index_for", upserts[k].coll, "ValueError")
                          EXCEPT !.opened = 1, !.closed = 1]
       ELSE /\ upserts' = [upserts EXCEPT ![k].pc = "inserted",
                                          ![k].work =
                                              Append(@, IndexRow(
                                                  collections[upserts[k].coll].indexes,
                                                  upserts[k].document, upserts[k].hash))]
            /\ last' = NoCall
    /\ UNCHANGED << collections, files, tables, indexed, external, query, calls, args, out >>

\* con.commit() and con.close()
upsert_commit(k) ==
    /\ upserts[k].pc = "inserted"
    /\ tables' = [tables EXCEPT ![upserts[k].coll] = upserts[k].work]
    /\ upserts' = [upserts EXCEPT ![k] = IdleUpsert]
    /\ last' = [Returned("_update_index_for", upserts[k].coll)
                  EXCEPT !.opened = 1, !.closed = 1]
    /\ UNCHANGED << collections, files, indexed, external, query, calls, args, out >>

\* the documents callers index concurrently: those of posts with an _id
UpsertDocs == {Normalized(d) : d \in {x \in DocsOf("posts") : HasKey(x.items, KeyId)}}

UpsertDelete ==
    \E k \in Callers : \E document \in UpsertDocs :
        upsert_delete(k, "posts", document, Sha1HexDigest(Sha1Update(<<>>, yaml_dump(document))))
UpsertInsert == \E k \in Callers : upsert_insert(k)
UpsertCommit == \E k \in Callers : upsert_commit(k)

\* ---------------------------------------------------------------- stringify

\* the non-negative integers handed to stringify, of 1 to 16 digits
Numbers ==
    {PyInt(0), PyInt(1), PyInt(9), PyInt(10), PyInt(99), PyInt(100), PyInt(2011),
     PyInt(2147483647),
     PyLong(<< 50, 49, 52, 55, 52, 56, 51, 54, 52, 56 >>),
     PyLong(<< 49, 48, 48, 48, 48, 48, 48, 48, 48, 48, 48, 48, 48, 48, 48, 48 >>),
     PyLong(<< 57, 57, 57, 57, 57, 57, 57, 57, 57, 57, 57, 57, 57, 57, 57, 56 >>),
     PyLong(<< 57, 57, 57, 57, 57, 57, 57, 57, 57, 57, 57, 57, 57, 57, 57, 57 >>)}

\* stringify(a), stringify(b) for the two values at hand
Stringify ==
    /\ out' = << stringify(args[1]), stringify(args[2]) >>
    /\ last' = Returned("stringify", "")
    /\ UNCHANGED << collections, files, tables, indexed, external, query, calls, args,
                    upserts >>

\* ------------------------------------------------------------------- specs

\* a Database on an empty folder
EmptyStore ==
    /\ collections = [n \in Names |-> NoCollection]
    /\ files = [n \in Names |-> [i \in Ids |-> NoFile]]
    /\ tables = [n \in Names |-> <<>>]
    /\ last = NoCall
    /\ indexed = [n \in Names |-> [i \in Ids |-> FALSE]]
    /\ external = 0

\* a Database on an empty folder, no Query built, nothing stringified
Init ==
    /\ EmptyStore
    /\ query = QueryInit
    /\ calls = <<>>
    /\ args = << PyNone, PyNone >>
    /\ out = << Null, Null >>
    /\ upserts = [k \in Callers |-> IdleUpsert]

\* two numbers to stringify
InitStringify ==
    /\ EmptyStore
    /\ query = QueryInit
    /\ calls = <<>>
    /\ args \in Numbers \X Numbers
    /\ out = << Null, Null >>
    /\ upserts = [k \in Callers |-> IdleUpsert]

Declare == (\E n \in Names : declare_collection(n, IndexesOf(n))) /\ UNCHANGED detached
GetCollection == (\E n \in Names : get_collection(n)) /\ UNCHANGED detached
SaveIn(c) == (\E d \in DocsOf(c) : save(c, d)) /\ UNCHANGED detached
Save == \E c \in Names : SaveIn(c)
Delete == (\E c \in Names : \E i \in IdsOf(c) : delete(c, i)) /\ UNCHANGED detached
Get == (\E c \in Names : \E i \in IdsOf(c) : get(c, i)) /\ UNCHANGED detached
FirstIn(c) == (\E y \in Years : first(c, y)) /\ UNCHANGED detached
First == \E c \in Names : FirstIn(c)
AllIn(c) == (\E y \in Years : all(c, y)) /\ UNCHANGED detached
All == \E c \in Names : AllIn(c)
ExternalIn(c) ==
    /\ \E i \in IdsOf(c) :
          \/ \E b \in ExternalBytes(c, i) : ExternalWrite(c, i, b)
          \/ ExternalRemove(c, i)
    /\ UNCHANGED detached
External == \E c \in Names : ExternalIn(c)

\* the whole program and its environment
Next == Declare \/ GetCollection \/ Save \/ Delete \/ Get \/ reindex \/ First \/ All \/ External

Spec == Init /\ [][Next]_vars

\* the document store: save, delete and reindex, with outside changes
StoreNext == Declare \/ Save \/ Delete \/ reindex \/ External

SpecStore == Init /\ [][StoreNext]_vars

\* the registry of collections and reading documents back
RegistryNext == Declare \/ GetCollection \/ Save \/ Get

SpecRegistry == Init /\ [][RegistryNext]_vars

\* queries over what save and outside changes leave in posts, the
\* collection indexed on pub_date
QueryNext ==
    Declare \/ SaveIn("posts") \/ FirstIn("posts") \/ AllIn("posts") \/ ExternalIn("posts")

SpecQuery == Init /\ [][QueryNext]_vars

\* building a Query and compiling it
CompileNext == QueryFilter \/ QueryOrderBy \/ QueryLimit \/ QueryOffset \/ MakeSelect

SpecCompile == Init /\ [][CompileNext]_vars

\* comparisons of the indexed field with a value, run on saved documents
MatchNext == DeclarePosts \/ SaveDated \/ FilterAll

SpecMatch == Init /\ [][MatchNext]_vars

\* saves of dicts and ordered mappings into posts
SaveNext == Declare \/ SaveMapping \/ Get

SpecSave == Init /\ [][SaveNext]_vars

\* saves of posts, one after the other, and upserts that interleave
UpsertNext ==
    Declare \/ (Quiet /\ SaveIn("posts")) \/ UpsertDelete \/ UpsertInsert \/ UpsertCommit

SpecUpsert == Init /\ [][UpsertNext]_vars

\* every operation that opens the index database, over posts
ConnectionsNext ==
    Declare \/ SaveIn("posts") \/ Delete \/ reindex \/ FirstIn("posts") \/ AllIn("posts")
    \/ ExternalIn("posts")

SpecConnections == Init /\ [][ConnectionsNext]_vars

\* stringify on pairs of numbers
SpecStringify == InitStringify /\ [][Stringify]_vars

\* ================================================================ claims

\* the rows of collection c for id that agree with a document and a file:
\* _hash is the file's content hash, the indexed columns are stringify of the
\* document's fields
RowAgrees(c, r, document, file) ==
    /\ r["_hash"] = get_file_hash(file.bytes)
    /\ \A col \in collections[c].indexes : r[col] = stringify(DocGet(document, KeyText(col)))

\* C1: after save(D) has returned, the file of D._id exists and the index
\* holds a row for D._id whose _hash is the content hash of the file's bytes
\* and whose indexed columns are stringify of D's indexed fields.
C1_SaveLeavesFileAndRowConsistent ==
    (last.op = "save" /\ last.outcome = "ok") =>
        /\ files[last.coll][last.id].exists
        /\ RowsOf(tables[last.coll], last.id) # <<>>
        /\ \A i \in 1..Len(RowsOf(tables[last.coll], last.id)) :
              RowAgrees(last.coll, RowsOf(tables[last.coll], last.id)[i], last.doc,
                        files[last.coll][last.id])

\* a save that replaced the row of an id while another id has a row too
C1_Witness ==
    /\ last.op = "save" /\ last.outcome = "ok" /\ last.coll = "posts"
    /\ Len(tables["posts"]) = 2
    /\ tables["posts"][2]["_id"] = IdA

\* C2: delete for an id that has no document file returns False, does not
\* raise, and leaves the index table as it was.
C2_DeleteOfMissingFileReturnsFalse ==
    [][(last'.op = "delete" /\ ~files[last'.coll][last'.id].exists) =>
          (last'.outcome = "ok" /\ last'.flag = FALSE /\ tables' = tables)]_vars

\* C3: delete for an id whose document file exists removes the file and the
\* index row of that id and returns True; get(id) is None afterwards.
C3_DeleteRemovesFileAndRow ==
    [][(last'.op = "delete" /\ files[last'.coll][last'.id].exists) =>
          /\ last'.outcome = "ok" /\ last'.flag = TRUE
          /\ ~files'[last'.coll][last'.id].exists
          /\ RowsOf(tables'[last'.coll], last'.id) = <<>>
          /\ GetDoc(files'[last'.coll][last'.id], last'.id).isnone]_vars

\* a file that get can decode
Decodable(file, id) == file.exists /\ GetDoc(file, id).outcome = "ok"

\* C4: after a reindex pass that completed, every decodable document file of
\* every declared collection has a row for its id whose _hash is the file's
\* content hash and whose indexed columns come from the file's content.
C4_ReindexRepairsStaleAndMissingRows ==
    (last.op = "reindex" /\ last.outcome = "ok") =>
        \A c \in Declared : \A id \in Ids :
            Decodable(files[c][id], id) =>
                /\ RowsOf(tables[c], id) # <<>>
                /\ RowAgrees(c, RowsOf(tables[c], id)[1], GetDoc(files[c][id], id).doc,
                             files[c][id])

\* a completed pass that wrote a row after a file was changed from outside
C4_Witness ==
    /\ last.op = "reindex" /\ last.outcome = "ok" /\ last.n > 0
    /\ external > 0

\* C5: a reindex pass run straight after a completed reindex pass writes no
\* row and leaves every index table as the first pass left it.
C5_ReindexTwiceChangesNothing ==
    [][(last.op = "reindex" /\ last.outcome = "ok" /\ last'.op = "reindex") =>
          (last'.outcome = "ok" /\ last'.n = 0 /\ tables' = tables)]_vars

\* the second of two passes in a row, over an index that holds rows in both
\* collections
C5_Witness ==
    /\ last.op = "reindex" /\ last.again /\ last.outcome = "ok"
    /\ tables["posts"] # <<>> /\ tables["pages"] # <<>>
    /\ external > 0

\* C6 as stated: with no change from outside, a row exists for id X iff X has
\* a file that was indexed since its current content was written.
C6_RowIffIndexedFile ==
    external = 0 =>
        \A c \in Declared : \A id \in Ids :
            RowsOf(tables[c], id) # <<>> <=> (files[c][id].exists /\ indexed[c][id])

\* C6 as amended: with no change from outside, a file that was indexed since
\* its current content was written has a row carrying its content hash, and
\* no row exists for an id that has no file.
C6_IndexedFileHasRowAndRowHasFile ==
    external = 0 =>
        \A c \in Declared : \A id \in Ids :
            /\ (files[c][id].exists /\ indexed[c][id]) =>
                  /\ RowsOf(tables[c], id) # <<>>
                  /\ RowsOf(tables[c], id)[1]["_hash"] = get_file_hash(files[c][id].bytes)
            /\ RowsOf(tables[c], id) # <<>> => files[c][id].exists

\* a row next to a file whose current content was never indexed, and a file
\* in step with its row, reached by the program's calls alone
C6_Witness ==
    /\ external = 0
    /\ RowsOf(tables["posts"], IdA) # <<>> /\ ~indexed["posts"][IdA]
    /\ RowsOf(tables["posts"], IdB) # <<>> /\ indexed["posts"][IdB]

\* C7: declare_collection with a name already declared raises and leaves the
\* registry as it was; get_collection returns the Collection registered.
C7_DuplicateDeclareRaisesAndKeepsRegistry ==
    [][/\ (last'.op = "declare" /\ collections[last'.coll].oid # 0) =>
             (last'.outcome = "raise" /\ collections' = collections)
       /\ (last'.op = "get_collection" /\ collections[last'.coll].oid # 0) =>
             (last'.outcome = "ok" /\ last'.obj = collections[last'.coll])]_vars

\* a second declaration of a name was refused
C7_Witness ==
    /\ last.op = "declare" /\ last.outcome = "raise"
    /\ collections[last.coll].oid # 0

\* the document stored under id, as get reads it
StoredDoc(c, id) == GetDoc(files[c][id], id).doc

\* the document's pub_date is a datetime of year y
PubDateInYear(document, y) ==
    /\ DocGet(document, KeyPubDate).k = "dt"
    /\ DocGet(document, KeyPubDate).v[1] = y

\* every file of the collection was written by a save that returned, and
\* nothing was changed from outside
OnlySaved(c) ==
    /\ external = 0
    /\ \A id \in Ids : files[c][id].exists => indexed[c][id]

\* C8: over documents saved into a collection indexed on pub_date,
\* filter(C.pub_date.year == y).all() returns exactly the saved documents
\* whose pub_date is in year y, in ascending _id order.
C8_YearFilterReturnsSavedDocsOfYear ==
    (last.op = "all" /\ OnlySaved(last.coll)) =>
        /\ last.outcome = "ok"
        /\ {last.docs[i] : i \in 1..Len(last.docs)}
             = {StoredDoc(last.coll, id) :
                  id \in {i \in Ids : /\ files[last.coll][i].exists
                                      /\ PubDateInYear(StoredDoc(last.coll, i), last.year)}}
        /\ \A i \in 1..Len(last.docs) : \A j \in 1..Len(last.docs) :
              i < j => TextLess(DocGet(last.docs[i], KeyId).v, DocGet(last.docs[j], KeyId).v)

\* both saved documents are of the year asked for and come back in id order
C8_Witness ==
    /\ last.op = "all" /\ OnlySaved(last.coll)
    /\ Len(last.docs) = 2

\* the rows the year filter's statement yields, in the statement's order
MatchingRows(c, y) == Execute(c, make_select(filter(QueryInit, YearIs(y)), << "_id" >>))

\* the ids of rows whose file get resolves to a document
ResolvingIds(c, rows) ==
    LET kept == SelectSeq(rows, LAMBDA r : Decodable(files[c][r["_id"]], r["_id"]))
    IN  [i \in 1..Len(kept) |-> kept[i]["_id"]]

\* C9: all() returns, in the statement's order, the documents of the matching
\* ids whose file resolves through get; a matching id whose file does not
\* resolve is skipped without raising.
C9_AllSkipsIdsThatDoNotResolve ==
    last.op = "all" =>
        /\ last.outcome = "ok"
        /\ last.docs = [i \in 1..Len(ResolvingIds(last.coll, MatchingRows(last.coll, last.year))) |->
                          StoredDoc(last.coll,
                                    ResolvingIds(last.coll,
                                                 MatchingRows(last.coll, last.year))[i])]

\* C10: first() returns None when no row matches or the file of the first
\* matching id is missing, and otherwise the document resolved from the first
\* matching id; it does not raise.
C10_FirstResolvesFirstMatchingId ==
    last.op = "first" =>
        /\ last.outcome = "ok"
        /\ IF MatchingRows(last.coll, last.year) = <<>>
           THEN last.isnone
           ELSE IF ~files[last.coll][MatchingRows(last.coll, last.year)[1]["_id"]].exists
           THEN last.isnone
           ELSE /\ ~last.isnone
                /\ last.doc = StoredDoc(last.coll, MatchingRows(last.coll, last.year)[1]["_id"])

\* the exceptions get raises for a file that does not decode
DecodeErrors == {"YAMLError", "TypeError"}

\* a file that decodes to a document _update_index_for cannot stringify
CannotIndex(c, id) ==
    /\ Decodable(files[c][id], id)
    /\ \E col \in collections[c].indexes :
          stringify_raises(DocGet(StoredDoc(c, id), KeyText(col)))

\* C11: a reindex pass does not raise for a file that fails to decode; it
\* skips that file and repairs the rows of the other files.
C11_ReindexSkipsUndecodableFiles ==
    last.op = "reindex" =>
        /\ last.exc \notin DecodeErrors
        /\ (\A c \in Declared : \A id \in Ids : ~CannotIndex(c, id)) =>
              \A c \in Declared : \A id \in Ids :
                  Decodable(files[c][id], id) =>
                      /\ RowsOf(tables[c], id) # <<>>
                      /\ RowAgrees(c, RowsOf(tables[c], id)[1], StoredDoc(c, id), files[c][id])

RECURSIVE Literals(_)
\* the values an expression binds, read off the expression from left to right
Literals(e) ==
    IF e.node = "literal"
    THEN << IF e.stringify THEN StringifiedObject(e.value) ELSE e.value >>
    ELSE IF e.node = "extract" \/ e.node = "neg" THEN Literals(e.expr)
    ELSE IF e.node = "op" THEN Literals(e.left) \o Literals(e.right)
    ELSE <<>>

\* the arguments of the calls of builder method m that returned, in call order
ArgsOf(m) ==
    LET made == SelectSeq(calls, LAMBDA c : c.m = m /\ c.ok)
    IN  [i \in 1..Len(made) |-> made[i].arg]

RECURSIVE LiteralsOfAll(_)
LiteralsOfAll(exprs) ==
    IF exprs = <<>> THEN <<>> ELSE Literals(Head(exprs)) \o LiteralsOfAll(Tail(exprs))

\* the values of the last limit() and, after it in the list, of the last
\* offset(); nothing of either without a limit
LimitOffsetLiterals ==
    IF ArgsOf("limit") = <<>> THEN <<>>
    ELSE Literals(ArgsOf("limit")[Len(ArgsOf("limit"))])
         \o (IF ArgsOf("offset") = <<>> THEN <<>>
             ELSE Literals(ArgsOf("offset")[Len(ArgsOf("offset"))]))

\* C12: for a Query built by any sequence of filter, order_by, limit and
\* offset calls, _make_select returns one value per placeholder of the
\* statement, clause by clause, and the values are those of the filter
\* expressions, then of the order-by expressions, then the limit, then the
\* offset, each read from left to right.
C12_OneValuePerPlaceholderInOrder ==
    \E stmt \in {make_select(query, << "_id" >>)} :
        /\ ~make_select_raises(query)
        /\ Len(stmt.vars) = ParamsOf(stmt.where) + ParamsOf(stmt.order)
                            + ParamsOf(stmt.limit) + ParamsOf(stmt.offset)
        /\ ParamsOf(stmt.where) = Len(LiteralsOfAll(ArgsOf("filter")))
        /\ ParamsOf(stmt.order) = Len(LiteralsOfAll(ArgsOf("order_by")))
        /\ stmt.vars = LiteralsOfAll(ArgsOf("filter")) \o LiteralsOfAll(ArgsOf("order_by"))
                       \o LimitOffsetLiterals

\* a statement compiled with two filter values, an order-by value, a limit
\* and an offset, the order-by call made before the filter call
C12_Witness ==
    /\ last.op = "_make_select" /\ last.outcome = "ok" /\ last.n = 5
    /\ calls[1].m = "order_by"

\* C18: the statement has an offset clause and an offset value only when a
\* limit is set; with offset() and no limit() it has neither clause and no
\* value for them; with both, the limit's value is bound right before the
\* offset's, whichever was called first.
C18_OffsetOnlyWithLimit ==
    \E stmt \in {make_select(query, << "_id" >>)} :
        /\ ~make_select_raises(query)
        /\ ArgsOf("limit") = <<>> =>
              /\ stmt.limit = <<>> /\ stmt.offset = <<>>
              /\ stmt.vars = query.where_vars \o query.order_vars
        /\ (ArgsOf("limit") # <<>> /\ ArgsOf("offset") = <<>>) =>
              /\ stmt.limit = << SqlParam >> /\ stmt.offset = <<>>
              /\ stmt.vars = query.where_vars \o query.order_vars
                             \o << ArgsOf("limit")[Len(ArgsOf("limit"))].value >>
        /\ (ArgsOf("limit") # <<>> /\ ArgsOf("offset") # <<>>) =>
              /\ stmt.limit = << SqlParam >> /\ stmt.offset = << SqlParam >>
              /\ stmt.vars = query.where_vars \o query.order_vars
                             \o << ArgsOf("limit")[Len(ArgsOf("limit"))].value,
                                   ArgsOf("offset")[Len(ArgsOf("offset"))].value >>

\* a Query with an offset and no limit was compiled
C18_Witness ==
    /\ last.op = "_make_select" /\ last.outcome = "ok"
    /\ ArgsOf("offset") # <<>> /\ ArgsOf("limit") = <<>>
    /\ query.where_vars # <<>>

\* C15: a comparison with None builds an IsNull node that compiles to a pair
\* (fragment, values of the operand), so filter accepts it, alone and inside
\* a BinaryOp.
C15_IsNullCompilesToPair ==
    \A i \in 1..Len(calls) :
        calls[i].m = "filter" =>
            /\ calls[i].ok
            /\ calls[i].arg.node = "isnull" =>
                  /\ to_sql(calls[i].arg).pair
                  /\ to_sql(calls[i].arg).vars = to_sql(calls[i].arg.expr).vars
                  /\ to_sql(calls[i].arg).sql
                       = SqlIsNull(to_sql(calls[i].arg.expr).sql, calls[i].arg.is_null)

\* the decimal digits of a non-negative int or long
DigitsOf(number) == IF number.k = "int" THEN Digits(number.v[1]) ELSE number.v

\* a < b for non-negative numbers: fewer digits, or as many and an earlier
\* digit smaller
NumberLess(a, b) ==
    \/ Len(DigitsOf(a)) < Len(DigitsOf(b))
    \/ Len(DigitsOf(a)) = Len(DigitsOf(b)) /\ TextLess(DigitsOf(a), DigitsOf(b))

\* C13: for non-negative integers a < b of at most 16 digits, stringify(a)
\* is lexicographically smaller than stringify(b) and both are 16 characters
\* long.
C13_StringifyKeepsOrderOfIntegers ==
    (last.op = "stringify" /\ NumberLess(args[1], args[2])) =>
        /\ TextLess(out[1], out[2])
        /\ Len(out[1]) = IndexWidth /\ Len(out[2]) = IndexWidth

\* stringify of a one-digit int and of a 16-digit long
C13_Witness ==
    /\ last.op = "stringify"
    /\ args[1] = PyInt(9)
    /\ args[2].k = "long" /\ Len(args[2].v) = IndexWidth
    /\ out[2] = args[2].v

\* C14: every connection to the index database a query, a mutation, the
\* schema creation or a reindex pass opened is closed when the operation
\* ends, whether it returned or raised.
C14_ConnectionsClosedOnEveryExit ==
    last.closed = last.opened

\* a save that raised inside _update_index_for, and so with its connection open
C14_Witness ==
    /\ last.op = "save" /\ last.outcome = "raise" /\ last.exc = "ValueError"
    /\ last.opened = 1

\* C16: in every committed state of an index table reached by saves and
\* upserts, one after the other or interleaved, also by two callers
\* upserting the same id, there is at most one row per _id.
C16_AtMostOneRowPerId ==
    \A c \in Names : \A id \in Ids : Len(RowsOf(tables[c], id)) <= 1

\* a caller has committed its row for an id while the other caller is inside
\* its transaction for the same id, a row of that id being committed before
C16_Witness ==
    /\ last.op = "_update_index_for" /\ last.outcome = "raise" /\ last.exc = "OperationalError"
    /\ \E k \in Callers :
          /\ upserts[k].pc = "inserted"
          /\ RowsOf(tables["posts"], DocGet(upserts[k].document, KeyId).v) # <<>>

\* C17: a save of the fields a returned save has just written under the same
\* _id, handed over in another insertion order, as the other kind of mapping,
\* or with the _id the earlier save generated, writes the same bytes and
\* records the same content hash.
C17_ResaveWritesSameBytes ==
    [][(/\ last.op = "save" /\ last.outcome = "ok"
        /\ last'.op = "save" /\ last'.outcome = "ok"
        /\ last'.coll = last.coll /\ last'.id = last.id
        /\ SameFields(last.doc, last'.doc))
       => /\ files'[last.coll][last.id].bytes = files[last.coll][last.id].bytes
          /\ RowsOf(tables'[last.coll], last.id)[1]["_hash"]
               = RowsOf(tables[last.coll], last.id)[1]["_hash"]
          /\ get_file_hash(files'[last.coll][last.id].bytes)
               = RowsOf(tables'[last.coll], last.id)[1]["_hash"]]_vars

\* the fields were saved again in an order the earlier save did not return
\* them in, _id first
C17_Witness ==
    /\ last.op = "save" /\ last.outcome = "ok" /\ last.again
    /\ last.doc[1].key = KeyId /\ last.doc[2].key = KeyTitle

\* the rows a step has changed, added or removed
ChangedRows ==
    {ci \in Names \X Ids : RowsOf(tables'[ci[1]], ci[2]) # RowsOf(tables[ci[1]], ci[2])}

\* C19: when a reindex pass fails in a collection, every row the pass has
\* written before, for the collections it processed earlier, is in the index
\* after the pass and agrees with its file: nothing is rolled back.
C19_FailedPassKeepsRepairedRows ==
    [][(last'.op = "reindex" /\ last'.outcome = "raise") =>
          /\ Cardinality(ChangedRows) = last'.n
          /\ \A ci \in ChangedRows :
                /\ RowsOf(tables'[ci[1]], ci[2]) # <<>>
                /\ RowAgrees(ci[1], RowsOf(tables'[ci[1]], ci[2])[1],
                             StoredDoc(ci[1], ci[2]), files[ci[1]][ci[2]])]_vars

\* a pass has repaired the row of pages and then failed in posts, where it
\* wrote nothing
C19_Witness ==
    /\ last.op = "reindex" /\ last.outcome = "raise" /\ last.coll = "posts"
    /\ last.n = 1
    /\ \A id \in Ids : files["posts"][id].exists => RowsOf(tables["posts"], id) = <<>>
    /\ RowsOf(tables["pages"], IdA) # <<>>
    /\ RowAgrees("pages", RowsOf(tables["pages"], IdA)[1], StoredDoc("pages", IdA),
                 files["pages"][IdA])

\* the value the last filter compared the field with, its operator, and the
\* values handed to limit and offset
ComparedValue == calls[1].arg.right.value
ComparedOp == calls[1].arg.op
LimitArg == calls[2].arg
OffsetArg == calls[3].arg

\* text x stands in relation op to text y (NULL stands in none)
TextHolds(op, x, y) ==
    /\ x # Null /\ y # Null
    /\ IF op = "=" THEN x = y
       ELSE IF op = "<>" THEN x # y
       ELSE IF op = ">" THEN TextLess(y, x)
       ELSE IF op = ">=" THEN ~TextLess(x, y)
       ELSE IF op = "<" THEN TextLess(x, y)
       ELSE ~TextLess(y, x)

\* the ids, in ascending order, of the rows of posts whose pub_date column
\* stands in the compared relation to stringify of the compared value
IdsByColumn ==
    SelectSeq(<< IdA, IdB >>,
              LAMBDA i : /\ RowsOf(tables["posts"], i) # <<>>
                         /\ TextHolds(ComparedOp, RowsOf(tables["posts"], i)[1]["pub_date"],
                                      stringify(ComparedValue)))

\* the part of ids a limit and an offset leave (the offset counts only with
\* a limit)
Windowed(ids) ==
    IF HasToSql(LimitArg) THEN ids
    ELSE LET m == IF HasToSql(OffsetArg) THEN 0 ELSE OffsetArg.v[1]
         IN Slice(ids, m + 1, IF m + LimitArg.v[1] > Len(ids) THEN Len(ids)
                               ELSE m + LimitArg.v[1])

\* C20: filter(C.pub_date <op> v) binds stringify(v), and raises where
\* stringify raises; all() then returns the documents of exactly the rows whose
\* pub_date column stands in relation op to stringify(v); the values of limit
\* and offset are bound as they were given.
C20_FieldLiteralBoundStringified ==
    /\ (last.op = "filter" /\ calls[1].arg.node = "op") => stringify_raises(ComparedValue)
    /\ last.op = "filter.all" =>
          /\ ~stringify_raises(ComparedValue)
          /\ last.outcome = "ok"
          /\ last.vars = << StringifiedObject(ComparedValue) >>
                         \o (IF HasToSql(LimitArg) THEN <<>>
                             ELSE << LimitArg >>
                                  \o (IF HasToSql(OffsetArg) THEN <<>> ELSE << OffsetArg >>))
          /\ last.docs = [i \in 1..Len(Windowed(IdsByColumn)) |->
                            StoredDoc("posts", Windowed(IdsByColumn)[i])]

\* pub_date == datetime with limit 10 and offset 1 over two saved documents
\* of that pub_date: the second one is returned
C20_Witness ==
    /\ last.op = "filter.all" /\ ComparedOp = "=" /\ ComparedValue = Date2011
    /\ last.vars = << PyStr(StrftimeIso(Date2011.v)), PyInt(10), PyInt(1) >>
    /\ Len(last.docs) = 1
    /\ DocGet(last.docs[1], KeyId) = PyStr(IdB)

====
